---- MODULE Spec2Model ----
(***************************************************************************)
(* A model of suite2p/detection/stats.py: the ROI dataclass and its        *)
(* derived properties, the weighted Gaussian ellipse fit fitMVGaus, the    *)
(* helper functions distance_kernel, mean_r_squared, calc_radii and        *)
(* aspect_ratio, and the deprecated batch adapter roi_stats.               *)
(*                                                                         *)
(* numpy floats are modelled on a decimal grid: a finite float is an       *)
(* integer count of 1/Fix units, every operation rounds its result to the  *)
(* grid (as a float operation rounds to the nearest representable value),  *)
(* and not-a-number / infinity are separate values.                        *)
(***************************************************************************)
EXTENDS Integers, Sequences, FiniteSets, TLC

\* ------------------------------------------------------------------ bounds
Fix == 1000          \* grid units per 1.0
MaxLen == 2          \* pixels of an ROI's mask
MaxR == 3            \* radii distance_kernel is called with
MaxRadiusSteps == 8  \* quarter units the radii given to aspect_ratio reach
\* the values the inputs are drawn from
Coords == {0, 1}     \* pixel coordinates
Weights == {0, 1}    \* pixel weights
ScaleValues == {1, 2}    \* dx, dy
BatchLens == {1, 2}  \* records of a short batch

\* --------------------------------------------------------- numpy floats
\* The arithmetic is written as functions f[a, b], which take their
\* arguments by value as numpy's operations do.
Float == [k : {"num", "nan", "inf"}, v : Int]
FloatArr == Seq(Float)
F(n) == [k |-> "num", v |-> n]
NaN == [k |-> "nan", v |-> 0]
Inf == [k |-> "inf", v |-> 0]
FromInt(i) == F(i * Fix)
IsNum(a) == a.k = "num"
IsNaN(a) == a.k = "nan"
NonFinite(a, b) == IF a.k = "nan" \/ b.k = "nan" THEN NaN ELSE Inf

FAdd[a \in Float, b \in Float] ==
    IF IsNum(a) /\ IsNum(b) THEN F(a.v + b.v) ELSE NonFinite(a, b)
FSub[a \in Float, b \in Float] ==
    IF IsNum(a) /\ IsNum(b) THEN F(a.v - b.v) ELSE NonFinite(a, b)
FMul[a \in Float, b \in Float] ==
    IF IsNum(a) /\ IsNum(b) THEN F((a.v * b.v) \div Fix) ELSE NonFinite(a, b)
\* true division: x/0 is inf, 0/0 is nan (numpy warns, it does not raise)
FDiv[a \in Float, b \in Float] ==
    IF ~(IsNum(a) /\ IsNum(b)) THEN NonFinite(a, b)
    ELSE IF b.v = 0 THEN (IF a.v = 0 THEN NaN ELSE Inf)
    ELSE F((a.v * Fix) \div b.v)

Min(a, b) == IF a <= b THEN a ELSE b
ISqrtBetween[n \in Nat, lo \in Nat, hi \in Nat] ==
    IF lo >= hi THEN lo
    ELSE IF ((lo + hi + 1) \div 2) * ((lo + hi + 1) \div 2) <= n
         THEN ISqrtBetween[n, (lo + hi + 1) \div 2, hi]
         ELSE ISqrtBetween[n, lo, ((lo + hi + 1) \div 2) - 1]
\* the largest r with r * r <= n
ISqrt[n \in Nat] == ISqrtBetween[n, 0, Min(n, 46340)]
\* x ** .5 : nan for a negative or nan operand
FSqrt[a \in Float] ==
    IF IsNaN(a) THEN NaN
    ELSE IF ~IsNum(a) THEN Inf
    ELSE IF a.v < 0 THEN NaN
    ELSE F(ISqrt[a.v * Fix])
\* np.maximum(0, x): nan propagates
FMax0[a \in Float] == IF IsNum(a) /\ a.v < 0 THEN F(0) ELSE a
FLeq(a, b) == IsNum(a) /\ IsNum(b) /\ a.v <= b.v

\* ndarray.sum()
FSum[s \in FloatArr] == IF s = <<>> THEN F(0) ELSE FAdd[s[1], FSum[Tail(s)]]
\* np.mean of a non-empty float array
FMean[s \in FloatArr] == FDiv[FSum[s], FromInt(Len(s))]

\* np.sort of a float array: ascending, nan last
SortsBefore(a, b) == IF IsNaN(a) THEN FALSE ELSE IF IsNaN(b) THEN TRUE
                     ELSE IF a.k = "inf" THEN FALSE ELSE IF b.k = "inf" THEN TRUE
                     ELSE a.v < b.v
NpSort(s) == SortSeq(s, SortsBefore)
Reverse(s) == [i \in 1..Len(s) |-> s[Len(s) + 1 - i]]
\* the middle of a sorted non-empty array
Middle[t \in FloatArr] ==
    IF Len(t) % 2 = 1 THEN t[(Len(t) + 1) \div 2]
    ELSE FDiv[FAdd[t[Len(t) \div 2], t[(Len(t) \div 2) + 1]], FromInt(2)]
\* np.median of a non-empty float array (no nan among the model's inputs)
NpMedian[s \in FloatArr] == Middle[NpSort(s)]
IntsToFloat(s) == [i \in 1..Len(s) |-> FromInt(s[i])]

\* ---------------------------------------------------- distance_kernel
\* d = arange(-radius, radius + 1); norm(meshgrid(d, d), axis=0)
ArangeShort(radius) == [i \in 1..(2 * radius) |-> i - radius - 1]
Arange(radius) == [i \in 1..(2 * radius + 1) |-> i - radius - 1]
Grid[d \in Seq(Int)] ==
    [i \in 1..Len(d) |-> [j \in 1..Len(d) |->
        FSqrt[FromInt(d[j] * d[j] + d[i] * d[i])]]]
distance_kernel(radius) == Grid[Arange(radius)]
\* ndarray.flatten(): row-major
Flatten[m \in Seq(FloatArr)] ==
    IF Len(m) = 0 THEN <<>>
    ELSE [p \in 1..(Len(m) * Len(m[1])) |->
            m[((p - 1) \div Len(m[1])) + 1][((p - 1) % Len(m[1])) + 1]]
\* np.sort(distance_kernel(radius).flatten())
SortedFlat(kernel) == NpSort(Flatten[kernel])
KernelRadius == 30
\* ROI.rsort default: np.sort(distance_kernel(radius=30).flatten())
rsort == SortedFlat(distance_kernel(KernelRadius))

\* ------------------------------------------------------ module functions
\* the offset 1e-10 of lines 42 and 100, rounded up to the smallest positive
\* value of the grid so that it stays a positive offset
Eps == 1
\* norm(((y - cy), (x - cx)), axis=0)
Distances[y \in FloatArr, x \in FloatArr, cy \in Float, cx \in Float] ==
    [i \in 1..Len(y) |->
        FSqrt[FAdd[FMul[FSub[y[i], cy], FSub[y[i], cy]],
                   FMul[FSub[x[i], cx], FSub[x[i], cx]]]]]
\* mean_r_squared(y, x, estimator=np.median)
mean_r_squared(y, x) ==
    FMean[Distances[IntsToFloat(y), IntsToFloat(x),
                    NpMedian[IntsToFloat(y)], NpMedian[IntsToFloat(x)]]]

\* aspect_ratio(ry, rx, offset=.01): 2 * ry / (ry + rx + offset)
AspectOffset == F(Fix \div 100)
aspect_ratio_no_offset(ry, rx) == FDiv[FMul[FromInt(2), ry], FAdd[ry, rx]]
aspect_ratio(ry, rx) ==
    FDiv[FMul[FromInt(2), ry], FAdd[FAdd[ry, rx], AspectOffset]]

\* np.linalg.eig of a 2x2 matrix raises LinAlgError unless every entry of
\* the matrix is finite
HasNonFiniteUnchecked(cov) == FALSE
HasNonFinite(cov) == \E i \in 1..2 : \E j \in 1..2 : ~IsNum(cov[i][j])
\* the eigenvalues of the symmetric matrix ((a, b), (b, d)), larger first
Eigenvalues[a \in Float, b \in Float, d \in Float, s \in Float] ==
    <<FDiv[FAdd[FAdd[a, d], s], FromInt(2)], FDiv[FSub[FAdd[a, d], s], FromInt(2)]>>
Discriminant[a \in Float, b \in Float, d \in Float] ==
    FAdd[FMul[FSub[a, d], FSub[a, d]], FMul[FromInt(4), FMul[b, b]]]
\* eig returns the eigenvalues in an order the caller cannot rely on
EigOrders == {1, 2}
Mat2 == Seq(FloatArr)
eig[cov \in Mat2, order \in EigOrders] ==
    IF HasNonFinite(cov) THEN [raised |-> TRUE, w |-> <<NaN, NaN>>]
    ELSE [raised |-> FALSE,
          w |-> IF order = 1
                THEN Eigenvalues[cov[1][1], cov[1][2], cov[2][2],
                        FSqrt[Discriminant[cov[1][1], cov[1][2], cov[2][2]]]]
                ELSE Reverse(Eigenvalues[cov[1][1], cov[1][2], cov[2][2],
                        FSqrt[Discriminant[cov[1][1], cov[1][2], cov[2][2]]]])]

\* lam /= lam.sum()
Normalized[lam \in FloatArr] == [i \in 1..Len(lam) |-> FDiv[lam[i], FSum[lam]]]
\* mu = (lam * yx).sum(axis=1)
WeightedMean[w \in FloatArr, y \in FloatArr, x \in FloatArr] ==
    <<FSum[[i \in 1..Len(w) |-> FMul[w[i], y[i]]]],
      FSum[[i \in 1..Len(w) |-> FMul[w[i], x[i]]]]>>
\* one row of (yx - mu[:, np.newaxis]) * lam ** .5
Centered[w \in FloatArr, c \in FloatArr, m \in Float] ==
    [i \in 1..Len(w) |-> FMul[FSub[c[i], m], FSqrt[w[i]]]]
Dot[a \in FloatArr, b \in FloatArr] == FSum[[i \in 1..Len(a) |-> FMul[a[i], b[i]]]]
\* cov = yx @ yx.T
Gram[cy \in FloatArr, cx \in FloatArr] ==
    <<<<Dot[cy, cy], Dot[cy, cx]>>, <<Dot[cx, cy], Dot[cx, cx]>>>>
Covariance[w \in FloatArr, y \in FloatArr, x \in FloatArr, mu \in FloatArr] ==
    Gram[Centered[w, y, mu[1]], Centered[w, x, mu[2]]]
\* radii = thres * np.maximum(0, np.real(radii)) ** .5
ScaledRoots[ev \in FloatArr, thres \in Float] ==
    [i \in 1..Len(ev) |-> FMul[thres, FSqrt[FMax0[ev[i]]]]]
\* radii = np.sort(radii)[::-1]
Unsorted(radii) == radii
SortDescending(radii) == Reverse(NpSort(radii))

\* the function from the eigendecomposition on
FitFromCov(w, mu, cov, e, thres) ==
    IF e.raised
    THEN [out |-> "LinAlgError", lam |-> w, mu |-> mu, cov |-> cov,
          radii |-> <<NaN, NaN>>]
    ELSE [out |-> "ok", lam |-> w, mu |-> mu, cov |-> cov,
          radii |-> SortDescending(ScaledRoots[e.w, thres])]
FitFromMean[w \in FloatArr, mu \in FloatArr, cov \in Mat2, thres \in Float, order \in EigOrders] ==
    FitFromCov(w, mu, cov, eig[cov, order], thres)
FitNormalized[w \in FloatArr, y \in FloatArr, x \in FloatArr, mu \in FloatArr, thres \in Float, order \in EigOrders] ==
    FitFromMean[w, mu, Covariance[w, y, x, mu], thres, order]
FitWeighted[w \in FloatArr, y \in FloatArr, x \in FloatArr, thres \in Float, order \in EigOrders] ==
    FitNormalized[w, y, x, WeightedMean[w, y, x], thres, order]
\* fitMVGaus(y, x, lam, thres): lam is normalized IN PLACE (lam /= lam.sum()),
\* so the caller's array is what comes back in .lam; .out is "ok" with the
\* EllipseData fields, or the exception that left the function
fitMVGaus(y, x, lam, thres, order) == FitWeighted[Normalized[lam], y, x, thres, order]

\* calc_radii(dy, dx, ypix, xpix, lam): fitMVGaus(ypix / dy, xpix / dx, lam, 2)
Thres == 2
Scaled[pix \in Seq(Int), d \in Int] ==
    [i \in 1..Len(pix) |-> FDiv[FromInt(pix[i]), FromInt(d)]]
calc_radii(dy, dx, ypix, xpix, lam, order) ==
    fitMVGaus(Scaled[ypix, dy], Scaled[xpix, dx], lam, FromInt(Thres), order)

\* ------------------------------------------------------------- class ROI
\* Optional[int]: <<>> is None, <<n>> is the integer n
None == <<>>
Some(v) == <<v>>
Val(o) == o[1]

\* __post_init__: the three shapes (1-D arrays: the lengths) must agree
ShapesDifferIgnoringLam(a) == Len(a.xpix) # Len(a.ypix)
ShapesDiffer(a) ==
    Len(a.xpix) # Len(a.ypix) \/ Len(a.xpix) # Len(a.lam)
\* the guard of ROI.radii: dx and dy are both required
ScaleMissing(r) == r.dx = None \/ r.dy = None

\* the value of a property that does not run the fit
ROI_mean_r_squared(r) == mean_r_squared(r.ypix, r.xpix)
ROI_mean_r_squared0(r) == FMean[SubSeq(rsort, 1, Min(Len(r.ypix), Len(rsort)))]
ROI_mean_r_squared_compact(r) ==
    FDiv[ROI_mean_r_squared(r), FAdd[F(Eps), ROI_mean_r_squared0(r)]]
ROI_median_pix(r) ==
    <<NpMedian[IntsToFloat(r.ypix)], NpMedian[IntsToFloat(r.xpix)]>>
ROI_n_pixels(r) == Len(r.xpix)

\* ROI.radii: the outcome of the access as [out, val, lam, fit]; lam is the
\* ROI's weight array after the access, fit what fitMVGaus produced
NoFit == [out |-> "none"]
Fit(e) ==
    [out |-> e.out, val |-> e.radii, lam |-> e.lam,
     fit |-> [out |-> e.out, mu |-> e.mu, cov |-> e.cov, radii |-> e.radii]]
ROI_radii_defaulting(r, order) ==
    Fit(calc_radii(IF r.dy = None THEN 1 ELSE Val(r.dy),
                   IF r.dx = None THEN 1 ELSE Val(r.dx),
                   r.ypix, r.xpix, r.lam, order))
ROI_radii(r, order) ==
    IF ScaleMissing(r)
    THEN [out |-> "TypeError", val |-> <<>>, lam |-> r.lam, fit |-> NoFit]
    ELSE Fit(calc_radii(Val(r.dy), Val(r.dx), r.ypix, r.xpix, r.lam, order))
\* ROI.radius: self.radii[0] * np.mean((self.dx, self.dy)); np.mean of a
\* tuple holding None raises TypeError
ROI_radius(r, order) ==
    LET q == ROI_radii(r, order)
    IN IF q.out # "ok" THEN q
       ELSE IF ScaleMissing(r) THEN [q EXCEPT !.out = "TypeError", !.val = <<>>]
       ELSE [q EXCEPT !.val = FMul[q.val[1],
                FDiv[FromInt(Val(r.dx) + Val(r.dy)), FromInt(2)]]]
\* ROI.aspect_ratio: ry, rx = self.radii; aspect_ratio(ry=ry, rx=rx)
ROI_aspect_ratio(r, order) ==
    LET q == ROI_radii(r, order)
    IN IF q.out # "ok" THEN q
       ELSE [q EXCEPT !.val = aspect_ratio(q.val[1], q.val[2])]

\* ------------------------------------------------------------ the state
VARIABLES
    pc,          \* where the caller is
    args,        \* the arguments of the call, as they were passed
    roi,         \* the ROI object, once constructed
    ret,         \* the last result: [op, out, val]
    fit,         \* what the last call of fitMVGaus produced
    has_raised,  \* a property access on this ROI has raised
    stats,       \* roi_stats: the batch of records, mutated in place
    idx,         \* roi_stats: the record the running loop is at
    normeds      \* roi_stats: mrs_normeds and npix_normeds
vars == <<pc, args, roi, ret, fit, has_raised, stats, idx, normeds>>

NoRet == [op |-> "none", out |-> "none", val |-> <<>>]
NoNormeds == [mrs |-> <<>>, npix |-> <<>>]

\* ------------------------------------------------- ROI and its properties
Pix(n) == [1..n -> Coords]
Lams(n) == {IntsToFloat(l) : l \in [1..n -> Weights]}
Scales == {None} \cup {Some(d) : d \in ScaleValues}
Zeros(n) == [i \in 1..n |-> 0]
MatchedArrays ==
    UNION {{[ypix |-> y, xpix |-> x, lam |-> l] :
                y \in Pix(n), x \in Pix(n), l \in Lams(n)} : n \in 1..MaxLen}
\* arrays of unequal lengths: only the lengths matter to the constructor
MismatchedArrays ==
    {[ypix |-> Zeros(a), xpix |-> Zeros(b), lam |-> IntsToFloat(Zeros(c))] :
        a \in 1..MaxLen, b \in 1..MaxLen, c \in 1..MaxLen} \ MatchedArrays
ROIArgs ==
    {[ypix |-> m.ypix, xpix |-> m.xpix, lam |-> m.lam, dx |-> sx, dy |-> sy] :
        m \in MatchedArrays \cup MismatchedArrays, sx \in Scales, sy \in Scales}

InitROI ==
    /\ pc = "roi_new"
    /\ args \in ROIArgs
    /\ roi = args
    /\ ret = NoRet
    /\ fit = NoFit
    /\ has_raised = FALSE
    /\ stats = <<>>
    /\ idx = 0
    /\ normeds = NoNormeds

\* ROI(ypix, xpix, lam, dx, dy): the dataclass stores the arguments, then
\* __post_init__ raises TypeError on a shape mismatch
Construct ==
    /\ pc = "roi_new"
    /\ pc' = IF ShapesDiffer(args) THEN "roi_rejected" ELSE "roi_live"
    /\ roi' = args
    /\ UNCHANGED <<args, ret, fit, has_raised, stats, idx, normeds>>

\* a property that reads the stored fields only
Pure(op, val) ==
    /\ ret' = [op |-> op, out |-> "ok", val |-> val]
    /\ UNCHANGED <<pc, args, roi, fit, has_raised, stats, idx, normeds>>
Get_mean_r_squared ==
    pc = "roi_live" /\ Pure("mean_r_squared", ROI_mean_r_squared(roi))
Get_mean_r_squared0 ==
    pc = "roi_live" /\ Pure("mean_r_squared0", ROI_mean_r_squared0(roi))
Get_mean_r_squared_compact ==
    pc = "roi_live" /\ Pure("mean_r_squared_compact", ROI_mean_r_squared_compact(roi))
Get_median_pix == pc = "roi_live" /\ Pure("median_pix", ROI_median_pix(roi))
Get_n_pixels == pc = "roi_live" /\ Pure("n_pixels", ROI_n_pixels(roi))

\* a property that runs the fit: the ROI's lam is the array fitMVGaus
\* normalized in place
Fitted(op, q) ==
    /\ ret' = [op |-> op, out |-> q.out, val |-> q.val]
    /\ roi' = [roi EXCEPT !.lam = q.lam]
    /\ fit' = IF q.fit.out = "none" THEN fit ELSE q.fit
    /\ has_raised' = (has_raised \/ q.out # "ok")
    /\ UNCHANGED <<pc, args, stats, idx, normeds>>
Get_radii ==
    /\ pc = "roi_live"
    /\ \E order \in EigOrders : \E q \in {ROI_radii(roi, order)} : Fitted("radii", q)
Get_radius ==
    /\ pc = "roi_live"
    /\ \E order \in EigOrders : \E q \in {ROI_radius(roi, order)} : Fitted("radius", q)
Get_aspect_ratio ==
    /\ pc = "roi_live"
    /\ \E order \in EigOrders :
        \E q \in {ROI_aspect_ratio(roi, order)} : Fitted("aspect_ratio", q)

NextROI ==
    \/ Construct
    \/ Get_mean_r_squared
    \/ Get_mean_r_squared0
    \/ Get_mean_r_squared_compact
    \/ Get_median_pix
    \/ Get_n_pixels
    \/ Get_radii
    \/ Get_radius
    \/ Get_aspect_ratio
SpecROI == InitROI /\ [][NextROI]_vars

\* ---------------------------------------------------------- roi_stats
\* norm_by_average(values, estimator, offset, first_n) of .utils:
\* values / (estimator(values[:first_n]) + offset); the estimator defaults
\* to the median and the offset to 0
NotNaN(s) == SelectSeq(s, LAMBDA v : ~IsNaN(v))
Estimate[values \in FloatArr, estimator \in {"median", "nanmedian"}] ==
    IF estimator = "nanmedian" THEN NpMedian[NotNaN(values)] ELSE NpMedian[values]
DivideAll[values \in FloatArr, denominator \in Float] ==
    [i \in 1..Len(values) |-> FDiv[values[i], denominator]]
norm_by_average(values, estimator, offset, first_n) ==
    DivideAll[values,
        FAdd[Estimate[SubSeq(values, 1, Min(first_n, Len(values))), estimator], offset]]

FirstN == 100
\* a record of the batch is a dict: ypix, xpix and lam, and the keys mrs,
\* mrs0, compact, med, npix, radius, aspect_ratio, npix_norm and footprint,
\* each absent (None) or present (Some(value))
HasKey(stat, key) == stat[key] # None
\* [stat['mrs'] for stat in stats]
MrsValues(batch) == [i \in 1..Len(batch) |-> Val(batch[i].mrs)]
\* [stat['npix'] for stat in stats]
NpixValues(batch) == [i \in 1..Len(batch) |-> FromInt(Val(batch[i].npix))]
\* line 100: norm_by_average(values=..., estimator=np.nanmedian, offset=1e-10, first_n=100)
MrsNormeds(batch) == norm_by_average(MrsValues(batch), "nanmedian", F(Eps), FirstN)
\* line 101: norm_by_average(values=..., first_n=100)
NpixNormeds(batch) == norm_by_average(NpixValues(batch), "median", F(0), FirstN)

\* the ROI built from a record and the diameters
RecordROI(stat, dy, dx) ==
    [ypix |-> stat.ypix, xpix |-> stat.xpix, lam |-> stat.lam,
     dx |-> Some(dx), dy |-> Some(dy)]
\* lines 89-93: the five fields written for every record
WithShape(stat, r) ==
    [stat EXCEPT !.mrs = Some(ROI_mean_r_squared(r)),
                 !.mrs0 = Some(ROI_mean_r_squared0(r)),
                 !.compact = Some(ROI_mean_r_squared_compact(r)),
                 !.med = Some(ROI_median_pix(r)),
                 !.npix = Some(ROI_n_pixels(r))]
\* line 94: the guard of the two geometric fields
SkipsGeometry(stat) == HasKey(stat, "radius")
\* lines 103-105: what the second loop writes into a record
WriteBackKeepsMrs(stat, mrs_normed, npix_normed) ==
    [stat EXCEPT !.npix_norm = Some(npix_normed),
                 !.footprint = IF HasKey(stat, "footprint") THEN stat.footprint
                               ELSE Some(0)]
WriteBack(stat, mrs_normed, npix_normed) ==
    [stat EXCEPT !.mrs = Some(mrs_normed),
                 !.npix_norm = Some(npix_normed),
                 !.footprint = IF HasKey(stat, "footprint") THEN stat.footprint
                               ELSE Some(0)]
\* the first loop has visited every record
LoopDoneAfterFirst(i, batch) == i > 1
LoopDone(i, batch) == i > Len(batch)

\* the batches roi_stats is given: each mask is a row of n pixels of equal
\* weight; a record is fresh from detection (with or without a radius, an
\* aspect ratio or a footprint set upstream) or comes out of an earlier
\* roi_stats call with every key present
Row(n) == [i \in 1..n |-> i - 1]
Upstream == FromInt(9)
Stale == FromInt(7)
Opt(v) == {None, Some(v)}
FreshRecords ==
    {[ypix |-> Zeros(n), xpix |-> Row(n), lam |-> IntsToFloat([i \in 1..n |-> w]),
      mrs |-> None, mrs0 |-> None, compact |-> None, med |-> None, npix |-> None,
      radius |-> ra, aspect_ratio |-> ar, npix_norm |-> None, footprint |-> fp] :
        n \in 1..MaxLen, w \in Weights, ra \in Opt(Upstream), ar \in Opt(Upstream),
        fp \in Opt(1)}
ProcessedRecords ==
    {[ypix |-> Zeros(n), xpix |-> Row(n), lam |-> IntsToFloat([i \in 1..n |-> w]),
      mrs |-> Some(Stale), mrs0 |-> Some(Stale), compact |-> Some(Stale),
      med |-> Some(<<Stale, Stale>>), npix |-> Some(7),
      radius |-> Some(Upstream), aspect_ratio |-> Some(Upstream),
      npix_norm |-> Some(Stale), footprint |-> Some(0)] :
        n \in 1..MaxLen, w \in Weights}
Records == FreshRecords \cup ProcessedRecords
ShortBatches == UNION {[1..n -> Records] : n \in BatchLens}
\* a batch longer than first_n: the estimate of the first 100 values is not
\* the estimate of them all
PlainRecords ==
    {r \in FreshRecords : /\ r.radius = None /\ r.aspect_ratio = None
                          /\ r.footprint = None /\ r.lam[1] # F(0)}
LongBatches ==
    {[i \in 1..(FirstN + 1) |-> IF i <= FirstN \div 2 THEN a ELSE b] :
        a \in PlainRecords, b \in PlainRecords}
Batches == ShortBatches \cup LongBatches

InitStats ==
    /\ pc = "stats_loop"
    /\ args \in {[dy |-> dy, dx |-> dx, stats |-> b] :
                    dy \in ScaleValues, dx \in ScaleValues, b \in Batches}
    /\ stats = args.stats
    /\ idx = 1
    /\ normeds = NoNormeds
    /\ roi = <<>>
    /\ ret = NoRet
    /\ fit = NoFit
    /\ has_raised = FALSE

\* lines 94-96 on a record without 'radius': roi.radius, then roi.aspect_ratio,
\* each a fit on the record's own lam array
Geometry(s1, r) ==
    \E o1 \in EigOrders : \E q1 \in {ROI_radius(r, o1)} :
        IF q1.out # "ok"
        THEN /\ stats' = [stats EXCEPT ![idx] = [s1 EXCEPT !.lam = q1.lam]]
             /\ pc' = "stats_raised"
             /\ idx' = idx
        ELSE \E o2 \in EigOrders :
                \E q2 \in {ROI_aspect_ratio([r EXCEPT !.lam = q1.lam], o2)} :
                    IF q2.out # "ok"
                    THEN /\ stats' = [stats EXCEPT ![idx] =
                                [s1 EXCEPT !.lam = q2.lam, !.radius = Some(q1.val)]]
                         /\ pc' = "stats_raised"
                         /\ idx' = idx
                    ELSE /\ stats' = [stats EXCEPT ![idx] =
                                [s1 EXCEPT !.lam = q2.lam, !.radius = Some(q1.val),
                                           !.aspect_ratio = Some(q2.val)]]
                         /\ pc' = pc
                         /\ idx' = idx + 1
\* lines 87-96: one pass of the first loop
RoiStats_record ==
    /\ pc = "stats_loop"
    /\ idx <= Len(stats)
    /\ \E r \in {RecordROI(stats[idx], args.dy, args.dx)} :
        IF ShapesDiffer(r)
        THEN /\ pc' = "stats_raised"
             /\ UNCHANGED <<stats, idx>>
        ELSE \E s1 \in {WithShape(stats[idx], r)} :
                IF SkipsGeometry(stats[idx])
                THEN /\ stats' = [stats EXCEPT ![idx] = s1]
                     /\ idx' = idx + 1
                     /\ pc' = pc
                ELSE Geometry(s1, r)
    /\ UNCHANGED <<args, roi, ret, fit, has_raised, normeds>>
\* lines 100-101: the two norm_by_average calls (a record lacking the key
\* would raise KeyError)
RoiStats_normalize ==
    /\ pc = "stats_loop"
    /\ LoopDone(idx, stats)
    /\ IF \A i \in 1..Len(stats) : HasKey(stats[i], "mrs") /\ HasKey(stats[i], "npix")
       THEN /\ normeds' = [mrs |-> MrsNormeds(stats), npix |-> NpixNormeds(stats)]
            /\ pc' = "stats_write"
            /\ idx' = 1
       ELSE /\ pc' = "stats_raised"
            /\ UNCHANGED <<normeds, idx>>
    /\ UNCHANGED <<args, roi, ret, fit, has_raised, stats>>
\* lines 102-105: one pass of the second loop
RoiStats_write ==
    /\ pc = "stats_write"
    /\ idx <= Len(stats)
    /\ stats' = [stats EXCEPT ![idx] = WriteBack(stats[idx], normeds.mrs[idx],
                                                 normeds.npix[idx])]
    /\ idx' = idx + 1
    /\ UNCHANGED <<pc, args, roi, ret, fit, has_raised, normeds>>
\* line 107
RoiStats_return ==
    /\ pc = "stats_write"
    /\ idx > Len(stats)
    /\ pc' = "stats_returned"
    /\ UNCHANGED <<args, roi, ret, fit, has_raised, stats, idx, normeds>>
NextStats ==
    \/ RoiStats_record
    \/ RoiStats_normalize
    \/ RoiStats_write
    \/ RoiStats_return
SpecStats == InitStats /\ [][NextStats]_vars

\* ------------------------------------- distance_kernel and aspect_ratio
KernelRadii == (1..MaxR) \cup {KernelRadius}
RadiusSamples == {F(k * (Fix \div 4)) : k \in 1..MaxRadiusSteps}
InitFn ==
    /\ \/ /\ pc = "kernel_call"
          /\ args \in {[radius |-> r] : r \in KernelRadii}
       \/ /\ pc = "aspect_call"
          /\ args \in {[ry |-> a, rx |-> b] : a \in RadiusSamples, b \in RadiusSamples}
    /\ roi = <<>>
    /\ ret = NoRet
    /\ fit = NoFit
    /\ has_raised = FALSE
    /\ stats = <<>>
    /\ idx = 0
    /\ normeds = NoNormeds
Returns(op, val, next) ==
    /\ ret' = [op |-> op, out |-> "ok", val |-> val]
    /\ pc' = next
    /\ UNCHANGED <<args, roi, fit, has_raised, stats, idx, normeds>>
\* distance_kernel(radius)
Call_distance_kernel ==
    /\ pc = "kernel_call"
    /\ Returns("distance_kernel", distance_kernel(args.radius), "kernel_done")
\* np.sort(distance_kernel(radius).flatten()): the radial reference table
Sort_kernel ==
    /\ pc = "kernel_done"
    /\ Returns("rsort", SortedFlat(ret.val), "table_done")
\* aspect_ratio(ry, rx)
Call_aspect_ratio ==
    /\ pc = "aspect_call"
    /\ Returns("aspect_ratio", aspect_ratio(args.ry, args.rx), "aspect_done")
NextFn ==
    \/ Call_distance_kernel
    \/ Sort_kernel
    \/ Call_aspect_ratio
SpecFn == InitFn /\ [][NextFn]_vars
\* ------------------------------------------------------------ properties
FittedOps == {"radii", "radius", "aspect_ratio"}
PureOps == {"mean_r_squared", "mean_r_squared0", "mean_r_squared_compact",
            "median_pix", "n_pixels"}
AllZero(lam) == \A i \in 1..Len(lam) : lam[i] = F(0)
Finite(s) == \A i \in 1..Len(s) : IsNum(s[i])
\* what a property returns on the fields r
ValueOf(op, r) ==
    CASE op = "mean_r_squared" -> ROI_mean_r_squared(r)
      [] op = "mean_r_squared0" -> ROI_mean_r_squared0(r)
      [] op = "mean_r_squared_compact" -> ROI_mean_r_squared_compact(r)
      [] op = "median_pix" -> ROI_median_pix(r)
      [] op = "n_pixels" -> ROI_n_pixels(r)
      [] op = "radii" -> ROI_radii(r, 1).val
      [] op = "radius" -> ROI_radius(r, 1).val
      [] op = "aspect_ratio" -> ROI_aspect_ratio(r, 1).val

\* C1: on an ROI with dx and dy set (and weights the fit accepts), whatever
\* properties have been accessed, ypix, xpix and lam hold the values given at
\* construction and the value an access returned is the value the property
\* has on the fields as constructed.
C1_AccessesLeaveFields ==
    (pc = "roi_live" /\ ~ScaleMissing(args) /\ ~AllZero(args.lam)) =>
        /\ roi.ypix = args.ypix
        /\ roi.xpix = args.xpix
        /\ roi.lam = args.lam
        /\ (ret.out = "ok" => ret.val = ValueOf(ret.op, args))

C3_OnlyIfAbsentBothFields ==
    pc = "stats_returned" =>
        \A i \in 1..Len(stats) :
            /\ HasKey(args.stats[i], "radius")
                 => stats[i].radius = args.stats[i].radius
            /\ HasKey(args.stats[i], "aspect_ratio")
                 => stats[i].aspect_ratio = args.stats[i].aspect_ratio
            /\ HasKey(stats[i], "radius")
            /\ HasKey(stats[i], "aspect_ratio")

\* the raw values of a batch, from its masks, and the two normalized lists
RawMrs(batch) ==
    [i \in 1..Len(batch) |-> mean_r_squared(batch[i].ypix, batch[i].xpix)]
RawNpix(batch) == [i \in 1..Len(batch) |-> Len(batch[i].xpix)]
Leading(s) == SubSeq(s, 1, Min(FirstN, Len(s)))
OverEstimate[values \in FloatArr, offset \in Float] ==
    DivideAll[values, FAdd[NpMedian[Leading(values)], offset]]
ExpectedMrs(batch) == OverEstimate[RawMrs(batch), F(Eps)]
ExpectedNpix(batch) == OverEstimate[IntsToFloat(RawNpix(batch)), F(0)]

\* C4 as stated: when roi_stats returns, 'mrs' holds the raw mean_r_squared
\* over (the estimate of the first 100 raw values + 1e-10) and the pixel-count
\* field 'npix' holds the raw count over the estimate of the first 100 counts.
C4_BothFieldsOverwritten ==
    pc = "stats_returned" =>
        LET mrs == ExpectedMrs(args.stats)
            npix == ExpectedNpix(args.stats)
        IN \A i \in 1..Len(stats) :
            /\ stats[i].mrs = Some(mrs[i])
            /\ FromInt(Val(stats[i].npix)) = npix[i]
\* C4 amended: when roi_stats returns, 'mrs' holds the normalized
\* mean_r_squared, the normalized pixel count is in the separate field
\* 'npix_norm', and 'npix' still holds the raw pixel count.
C4_NormalizedFields ==
    pc = "stats_returned" =>
        LET mrs == ExpectedMrs(args.stats)
            npix == ExpectedNpix(args.stats)
        IN \A i \in 1..Len(stats) :
            /\ stats[i].mrs = Some(mrs[i])
            /\ stats[i].npix_norm = Some(npix[i])
            /\ stats[i].npix = Some(Len(stats[i].xpix))
C4_Witness ==
    /\ pc = "stats_returned"
    /\ Len(stats) > FirstN
    /\ NpMedian[IntsToFloat(RawNpix(stats))] # NpMedian[Leading(IntsToFloat(RawNpix(stats)))]
    /\ \E i \in {1, Len(stats)} :
        /\ stats[i].npix_norm # Some(FromInt(Val(stats[i].npix)))
        /\ stats[i].mrs # Some(RawMrs(stats)[i])

\* C5: construction fails exactly when ypix, xpix and lam do not all have the
\* same length, so the three arrays of every ROI have one size.
SameLength(a) == Len(a.ypix) = Len(a.xpix) /\ Len(a.xpix) = Len(a.lam)
C5_MismatchRejected ==
    /\ pc = "roi_rejected" => ~SameLength(args)
    /\ pc = "roi_live" => (SameLength(args) /\ SameLength(roi))
C5_Witness ==
    /\ pc = "roi_rejected"
    /\ Len(args.ypix) = Len(args.xpix)
    /\ Len(args.lam) # Len(args.xpix)

\* C6: on an ROI built without dx or dy, radii, radius and aspect_ratio raise,
\* the ROI is left as constructed, and the five other properties return
\* their values whether or not an access has raised before.
C6_MissingScaleOnlyFailsFit ==
    (pc = "roi_live" /\ ScaleMissing(args)) =>
        /\ roi = args
        /\ ret.op \in FittedOps => (ret.out = "TypeError" /\ has_raised)
        /\ ret.op \in PureOps => (ret.out = "ok" /\ ret.val = ValueOf(ret.op, args))
C6_Witness ==
    /\ pc = "roi_live"
    /\ args.dy = None
    /\ args.dx # None
    /\ has_raised
    /\ ret.op = "mean_r_squared_compact"
    /\ ret.out = "ok"

\* C7 as stated: aspect_ratio(r, r) is 1.0 for equal r > 0, to within the
\* rounding of the arithmetic (one unit of the grid).
C7_CircleIsOne ==
    (pc = "aspect_done" /\ args.ry = args.rx) =>
        (ret.val.v >= Fix - 1 /\ ret.val.v <= Fix + 1)
\* C7 amended: aspect_ratio(r, r) is 2r / (2r + 0.01): strictly below 1.0,
\* short of it by 0.01 / (2r + 0.01).
C7_CircleBelowOne ==
    (pc = "aspect_done" /\ args.ry = args.rx) =>
        LET denominator == 2 * args.ry.v + AspectOffset.v
            shortfall == Fix - ret.val.v
        IN /\ ret.val.v < Fix
           /\ shortfall * denominator >= AspectOffset.v * Fix
           /\ shortfall * denominator < AspectOffset.v * Fix + denominator
C7_Witness ==
    /\ pc = "aspect_done"
    /\ args.ry = args.rx
    /\ args.ry = FromInt(1)
    /\ ret.val.v < Fix - 1

\* C8: the radii a fit returns are in descending order, whichever order the
\* eigenvalues came in, and ROI.aspect_ratio is computed with the larger
\* radius as ry.
C8_RadiiDescending ==
    pc = "roi_live" =>
        /\ fit.out = "ok" => FLeq(fit.radii[2], fit.radii[1])
        /\ (ret.op = "radii" /\ ret.out = "ok") => FLeq(ret.val[2], ret.val[1])
        /\ (ret.op = "aspect_ratio" /\ ret.out = "ok")
             => /\ FLeq(fit.radii[2], fit.radii[1])
                /\ ret.val = aspect_ratio(fit.radii[1], fit.radii[2])
C8_Witness ==
    /\ pc = "roi_live"
    /\ ret.op = "radii"
    /\ ret.out = "ok"
    /\ ret.val[1].v > ret.val[2].v
    /\ ret.val[2].v > 0

\* C9: the sorted table for radius R has (2R+1)^2 entries in non-decreasing
\* order, starts at 0 and ends at R * sqrt(2).
C9_RadialTable ==
    pc = "table_done" =>
        LET t == ret.val
            R == args.radius
        IN /\ Len(t) = (2 * R + 1) * (2 * R + 1)
           /\ Finite(t)
           /\ \A i \in 1..(Len(t) - 1) : t[i].v <= t[i + 1].v
           /\ t[1] = F(0)
           /\ t[Len(t)].v * t[Len(t)].v <= 2 * R * R * Fix * Fix
           /\ (t[Len(t)].v + 1) * (t[Len(t)].v + 1) > 2 * R * R * Fix * Fix
C9_Witness ==
    /\ pc = "table_done"
    /\ args.radius = 2
    /\ Len(ret.val) = 25
    /\ ret.val[2] = FromInt(1)

\* C10: while the first loop runs no record has a normalized value, and once
\* the normalization has been computed every record holds its raw pixel
\* count and both lists were computed from the raw values of the whole batch.
C10_NormalizeAfterFirstPass ==
    /\ pc = "stats_loop" =>
        \A j \in 1..Len(stats) :
            /\ stats[j].npix_norm = args.stats[j].npix_norm
            /\ stats[j].mrs = IF j < idx THEN Some(RawMrs(stats)[j])
                              ELSE args.stats[j].mrs
    /\ pc \in {"stats_write", "stats_returned"} =>
        /\ \A j \in 1..Len(stats) : stats[j].npix = Some(Len(stats[j].xpix))
        /\ normeds.mrs = ExpectedMrs(args.stats)
        /\ normeds.npix = ExpectedNpix(args.stats)
        /\ \A j \in 1..Len(stats) :
            (pc = "stats_write" /\ j >= idx) => stats[j].mrs = Some(RawMrs(stats)[j])
C10_Witness ==
    /\ pc = "stats_write"
    /\ idx = 2
    /\ Len(stats) = 2
    /\ HasKey(args.stats[2], "mrs")
    /\ stats[1].mrs # Some(RawMrs(stats)[1])
    /\ stats[2].mrs = Some(RawMrs(stats)[2])
    /\ RawMrs(stats)[2] # RawMrs(stats)[1]
====
